---------------------------- MODULE Spec2Model ----------------------------
(***************************************************************************)
(* Smart Demand Forecast: the page scripts.                                *)
(*                                                                         *)
(* Two scripts wire the same page: src/static/js/main.js ("main") and      *)
(* src/unnamed/part_000 ("part").  Each registers a change handler on the  *)
(* file input `dataset`; main registers submit handlers on `forecast-form` *)
(* and `upload-form`, part registers one submit handler on every form.     *)
(*                                                                         *)
(* Text is a sequence of one-character strings, so that toLowerCase,       *)
(* endsWith, includes and parseInt are computed character by character.    *)
(* A byte count is a little-endian sequence of base-1024 digits without a  *)
(* leading zero digit (0 is << >>), so that counts of 2^31 and more can be *)
(* stated.                                                                 *)
(***************************************************************************)
EXTENDS Integers, Sequences, FiniteSets, TLC

\* ------------------------------------------------------------ bounds

\* A change event is dispatched while fewer than MaxAlerts of the alerts of
\* part's showError are in the page (one event may add two).
MaxAlerts == 1

\* A submit event is dispatched while fewer than MaxOverlays loading overlays
\* are in the page (one event may add two).
MaxOverlays == 1

\* ------------------------------------------------------------ text

UpperLetters ==
  <<"A", "B", "C", "D", "E", "F", "G", "H", "I", "J", "K", "L", "M",
    "N", "O", "P", "Q", "R", "S", "T", "U", "V", "W", "X", "Y", "Z">>

LowerLetters ==
  <<"a", "b", "c", "d", "e", "f", "g", "h", "i", "j", "k", "l", "m",
    "n", "o", "p", "q", "r", "s", "t", "u", "v", "w", "x", "y", "z">>

\* The lower-case form of one character: of a letter A-Z, the letter a-z.
LowerChar(c) ==
  IF \E i \in DOMAIN UpperLetters : UpperLetters[i] = c
  THEN LowerLetters[CHOOSE i \in DOMAIN UpperLetters : UpperLetters[i] = c]
  ELSE c

\* String.prototype.toLowerCase
toLowerCase(s) == [i \in 1..Len(s) |-> LowerChar(s[i])]

\* String.prototype.endsWith
endsWith(s, suffix) ==
  /\ Len(s) >= Len(suffix)
  /\ SubSeq(s, Len(s) - Len(suffix) + 1, Len(s)) = suffix

\* String.prototype.includes
includes(s, sub) ==
  \E i \in 0..(Len(s) - Len(sub)) : SubSeq(s, i + 1, i + Len(sub)) = sub

DotCsv == <<".", "c", "s", "v">>

ClearDataset == <<"c", "l", "e", "a", "r", "_", "d", "a", "t", "a", "s", "e", "t">>

\* ------------------------------------------------------------ byte counts

k == 1024

\* The digits of a count below 2^31.
RECURSIVE Limbs(_)
Limbs(n) == IF n = 0 THEN << >> ELSE <<n % k>> \o Limbs(n \div k)

\* a > b on byte counts.
RECURSIVE GreaterFrom(_, _, _)
GreaterFrom(a, b, j) ==
  IF j = 0 THEN FALSE
  ELSE IF a[j] # b[j] THEN a[j] > b[j]
  ELSE GreaterFrom(a, b, j - 1)

Greater(a, b) ==
  IF Len(a) # Len(b) THEN Len(a) > Len(b) ELSE GreaterFrom(a, b, Len(a))

\* 16 * 1024 * 1024
MaxFileSize == Limbs(16 * 1024 * 1024)

\* ------------------------------------------------------------ formatFileSize

\* floor(200 * (bytes mod 1024^i) / 1024^i): the carry out of digit j of
\* 200 * (the i low digits of bytes).
RECURSIVE Carry(_, _)
Carry(bytes, j) ==
  IF j = 0 THEN 0
  ELSE ((IF j \in DOMAIN bytes THEN bytes[j] ELSE 0) * 200
          + Carry(bytes, j - 1)) \div k

\* (bytes / 1024^i).toFixed(2), in hundredths: the quotient is exact in a
\* double (a division by a power of two), and toFixed rounds the exact
\* value to the nearest hundredth, a tie upwards.
Hundredths(bytes, i) ==
  (IF i + 1 \in DOMAIN bytes THEN bytes[i + 1] ELSE 0) * 100
    + (Carry(bytes, i) + 1) \div 2

\* parseFloat(text) + '': the trailing zeros of the two decimals are dropped.
NumberText(h) ==
  LET whole == h \div 100
      frac  == h % 100
  IN IF frac = 0 THEN ToString(whole)
     ELSE IF frac % 10 = 0 THEN ToString(whole) \o "." \o ToString(frac \div 10)
     ELSE ToString(whole) \o "." \o ToString(frac \div 10) \o ToString(frac % 10)

sizes == <<"Bytes", "KB", "MB", "GB">>

\* sizes[i], zero-based: an index past the array reads undefined.
SizeUnit(i) == IF i + 1 \in DOMAIN sizes THEN sizes[i + 1] ELSE "undefined"

\* Math.floor(Math.log(bytes) / Math.log(k)) in double arithmetic, for the
\* counts a double holds exactly (below 2^53): the number of base-1024 digits
\* minus one, except for 1024^5 - 3 .. 1024^5 - 1, where the quotient of the
\* two logarithms rounds to 5.
FloorLog(bytes) ==
  IF Len(bytes) = 5 /\ ~Greater(<<k - 3, k - 1, k - 1, k - 1, k - 1>>, bytes)
  THEN 5
  ELSE Len(bytes) - 1

formatFileSize(bytes) ==
  IF bytes = << >> THEN "0 Bytes"
  ELSE LET i == FloorLog(bytes)
       IN NumberText(Hundredths(bytes, i)) \o " " \o SizeUnit(i)


\* ------------------------------------------------------------ parseInt

\* A number is <<n>>, and NaN is << >>: no number equals it, and it is
\* neither less nor greater than any.
NaN == << >>

isNaN(n) == n = NaN

\* a < b and a > b, for a the result of parseInt and b an integer.
NumLess(a, b) == ~isNaN(a) /\ a[1] < b

NumGreater(a, b) == ~isNaN(a) /\ a[1] > b

\* The value of a character as a digit; 99 for what is no digit of any radix.
DigitValue(c) ==
  CASE c = "0" -> 0 [] c = "1" -> 1 [] c = "2" -> 2 [] c = "3" -> 3
    [] c = "4" -> 4 [] c = "5" -> 5 [] c = "6" -> 6 [] c = "7" -> 7
    [] c = "8" -> 8 [] c = "9" -> 9
    [] c \in {"a", "A"} -> 10 [] c \in {"b", "B"} -> 11
    [] c \in {"c", "C"} -> 12 [] c \in {"d", "D"} -> 13
    [] c \in {"e", "E"} -> 14 [] c \in {"f", "F"} -> 15
    [] OTHER -> 99

\* The white space parseInt skips, among the ASCII characters: the blank,
\* tab, line feed, vertical tab, form feed and carriage return.
WhiteSpace == {" ", "\t", "\n", "", "\f", "\r"}

\* The text without its leading white space.
RECURSIVE TrimStart(_)
TrimStart(s) ==
  IF s # << >> /\ s[1] \in WhiteSpace THEN TrimStart(Tail(s)) ELSE s

\* The value of the longest prefix of s made of digits of the radix, read
\* after the digits whose value is acc; NaN when there is no digit at all.
RECURSIVE ReadDigits(_, _, _, _)
ReadDigits(s, radix, acc, any) ==
  IF s # << >> /\ DigitValue(s[1]) < radix
  THEN ReadDigits(Tail(s), radix, acc * radix + DigitValue(s[1]), TRUE)
  ELSE IF any THEN <<acc>> ELSE NaN

\* parseInt(string), no radix given: white space, a sign, 0x for radix 16,
\* then the longest run of digits; what follows the digits is ignored.
parseInt(string) ==
  LET t      == TrimStart(string)
      signed == t # << >> /\ t[1] \in {"-", "+"}
      u      == IF signed THEN Tail(t) ELSE t
      hex    == Len(u) >= 2 /\ u[1] = "0" /\ u[2] \in {"x", "X"}
      v      == IF hex THEN ReadDigits(Tail(Tail(u)), 16, 0, FALSE)
                ELSE ReadDigits(u, 10, 0, FALSE)
  IN IF isNaN(v) THEN NaN
     ELSE IF signed /\ t[1] = "-" THEN <<0 - v[1]>> ELSE v

\* ------------------------------------------------------------ the page

VARIABLES
  cfg,          \* the document the scripts were loaded in (fixed)
  files,        \* dataset.files: << >> or <<the selected file>>
  fileInfo,     \* the element with id file-info
  errorAlerts,  \* the elements with id error-alert (main's showError)
  alerts,       \* the alerts part's showError prepended, newest first
  overlays,     \* the loading-spinner elements appended to the body
  lastFailure,  \* the message of main's most recent validation failure
  ev            \* the event dispatched last, and what each handler did

vars == <<cfg, files, fileInfo, errorAlerts, alerts, overlays, lastFailure, ev>>

\* File names the user may pick.
FileNames ==
  { <<"a", ".", "c", "s", "v">>,
    <<"A", ".", "C", "S", "V">>,
    <<"a", ".", "t", "x", "t">>,
    <<"c", "s", "v">> }

\* File sizes the user may pick: 0, 1, 16 MiB and 16 MiB + 1.
FileSizes == {Limbs(0), Limbs(1), MaxFileSize, Limbs(16 * 1024 * 1024 + 1)}

File == [name : FileNames, size : FileSizes]

\* e.target.files: empty, or the one file selected.
FileLists == {<< >>} \cup {<<f>> : f \in File}

\* The forms of the page, with their action and data-loading-message.
FormIds == {"forecast-form", "upload-form", "clear-form", "report-form"}

FormAction(form) ==
  CASE form = "forecast-form" -> <<"/", "f", "o", "r", "e", "c", "a", "s", "t">>
    [] form = "upload-form" -> <<"/", "u", "p", "l", "o", "a", "d">>
    [] form = "clear-form" -> <<"/">> \o ClearDataset
    [] OTHER -> <<"/", "r", "e", "p", "o", "r", "t">>

FormLoadingMessage(form) ==
  IF form = "report-form" THEN "Generating report..." ELSE ""

\* What the user may have put in the fields of the forecast form.
ProductValues == {"", "Widget"}

DaysValues ==
  { << >>, <<"0">>, <<"1">>, <<"9", "0">>, <<"9", "1">>, <<"a", "b", "c">>,
    <<"1", ".", "5">>, <<"5", "x">>, <<"0", "x", "A">>, <<" ", "7">> }

\* The orders the two scripts may have been loaded in.
ScriptOrders == {<<"main">>, <<"part">>, <<"main", "part">>, <<"part", "main">>}

NoFileInfo == [present |-> FALSE, name |-> << >>, size |-> ""]

EmptyFileInfo == [present |-> TRUE, name |-> << >>, size |-> ""]

NoEvent ==
  [type |-> "load", target |-> "", picked |-> << >>, product |-> "",
   days |-> << >>, log |-> << >>]

\* The elements the scripts look up that a page may be served without.
Optional == {"dataset", "product", "days", "card-body", "file-info"}

\* document.getElementById / querySelector finds the element in the page as
\* served.
Has(element) == element \notin cfg.missing

\* The pages served: the complete one, those without one of the elements,
\* and the one without any of them.
Missing == {{}} \cup {{element} : element \in Optional} \cup {Optional}

\* DOMContentLoaded: the page as it is served.
Init ==
  /\ cfg \in [order : ScriptOrders, missing : Missing]
  /\ files = << >>
  /\ fileInfo = IF Has("file-info") THEN EmptyFileInfo ELSE NoFileInfo
  /\ errorAlerts = << >>
  /\ alerts = << >>
  /\ overlays = << >>
  /\ lastFailure = ""
  /\ ev = NoEvent

\* ------------------------------------------------------------ handlers
\* A handler is run on a record x: the document's mutable parts, and what the
\* handler has done so far (error: showError returned; created: showError
\* added an element to the page; threw: an exception left the handler;
\* prevented: it called preventDefault; overlay: it called showLoading).  Once threw is set the rest of the handler does not run.

Running ==
  [files |-> files, fileInfo |-> fileInfo, errorAlerts |-> errorAlerts,
   alerts |-> alerts, overlays |-> overlays, lastFailure |-> lastFailure,
   error |-> FALSE, created |-> FALSE, threw |-> FALSE, prevented |-> FALSE,
   overlay |-> FALSE, log |-> << >>]

\* document.body.appendChild(loadingEl)
showLoading(x, message) ==
  [x EXCEPT !.overlays = Append(@, message), !.overlay = TRUE]

\* showError without the lookup of the element with id error-alert: a new
\* element is made and prepended at every call.
mainShowError_AlwaysNew(x, message) ==
  IF ~Has("card-body")
  THEN [x EXCEPT !.threw = TRUE, !.lastFailure = message]
  ELSE [x EXCEPT !.errorAlerts = <<message>> \o @,
                 !.created = TRUE,
                 !.error = TRUE,
                 !.lastFailure = message]

\* main's showError: the element with id error-alert is looked up, and made
\* and prepended to .card-body when there is none; prepend on the null that
\* querySelector returns for a missing .card-body throws.
mainShowError(x, message) ==
  IF x.errorAlerts = << >> /\ ~Has("card-body")
  THEN [x EXCEPT !.threw = TRUE, !.lastFailure = message]
  ELSE [x EXCEPT !.errorAlerts =
                    IF @ = << >> THEN <<message>> ELSE <<message>> \o Tail(@),
                 !.created = (x.errorAlerts = << >>),
                 !.error = TRUE,
                 !.lastFailure = message]

\* part's showError: a new alert is prepended to .container, or to the body.
partShowError(x, message) ==
  [x EXCEPT !.alerts = <<message>> \o @, !.created = TRUE, !.error = TRUE]

\* `fileName.toLowerCase().endsWith('.csv')`, in both scripts.
IsCsv(fileName) == endsWith(toLowerCase(fileName), DotCsv)

\* The size check with >= for >.
ExceedsLimit_AtLeast(fileSize) == ~Greater(MaxFileSize, fileSize)

\* part's `fileSize > 16 * 1024 * 1024`.
ExceedsLimit(fileSize) == Greater(fileSize, MaxFileSize)

\* main's change handler on dataset.
mainChange(x) ==
  IF x.files = << >> \/ x.files[1].name = << >> THEN x
  ELSE
    LET fileName == x.files[1].name
        fileSize == x.files[1].size
        x1 == [x EXCEPT !.fileInfo =
                 [present |-> TRUE, name |-> fileName,
                  size |-> formatFileSize(fileSize)]]
        x2 == mainShowError(x1, "Please select a CSV file.")
    IN IF IsCsv(fileName) THEN x1
       ELSE IF x2.threw THEN x2
       ELSE [x2 EXCEPT !.files = << >>, !.fileInfo = NoFileInfo]

NoFileSelected ==
  <<"N", "o", " ", "f", "i", "l", "e", " ", "s", "e", "l", "e", "c", "t",
    "e", "d">>

\* part's rejection of a file: the error, the cleared input, the emptied panel.
partReject(x, message) ==
  LET x1 == partShowError(x, message)
  IN [x1 EXCEPT !.files = << >>,
                !.fileInfo = IF @.present THEN EmptyFileInfo ELSE @]

\* part's change handler on dataset.
partChange(x) ==
  LET fileName == IF x.files # << >> /\ x.files[1].name # << >>
                  THEN x.files[1].name ELSE NoFileSelected
      fileSize == IF x.files # << >> THEN x.files[1].size ELSE << >>
      x1 == IF x.fileInfo.present
            THEN [x EXCEPT !.fileInfo =
                    [present |-> TRUE, name |-> fileName,
                     size |-> formatFileSize(fileSize)]]
            ELSE x
      x2 == IF Greater(fileSize, Limbs(0)) /\ ~IsCsv(fileName)
            THEN partReject(x1, "Please select a CSV file")
            ELSE x1
  IN IF ExceedsLimit(fileSize)
     THEN partReject(x2, "File size exceeds 16MB limit")
     ELSE x2

\* main's submit handler on forecast-form.  The fields are looked up by id;
\* reading .value of a missing one throws.
mainForecastSubmit(x, product, daysValue) ==
  IF ~Has("product") THEN [x EXCEPT !.threw = TRUE]
  ELSE IF product = ""
  THEN mainShowError([x EXCEPT !.prevented = TRUE], "Please select a product.")
  ELSE IF ~Has("days") THEN [x EXCEPT !.threw = TRUE]
  ELSE
    LET days == parseInt(daysValue)
    IN IF isNaN(days) \/ NumLess(days, 1) \/ NumGreater(days, 90)
       THEN mainShowError([x EXCEPT !.prevented = TRUE],
                          "Please enter a valid number of days (1-90).")
       ELSE showLoading(x, "Generating forecast...")

\* main's submit handler on upload-form.  fileInput is what getElementById
\* returned for dataset when the script ran: null when there is no such input.
mainUploadSubmit(x) ==
  IF ~Has("dataset") THEN [x EXCEPT !.threw = TRUE]
  ELSE IF x.files = << >>
  THEN mainShowError([x EXCEPT !.prevented = TRUE],
                     "Please select a file to upload.")
  ELSE showLoading(x, "Uploading and processing data...")

\* The submit handler without the exemption of the clear-dataset form.
partSubmit_NoExemption(x, form) ==
  showLoading(x, IF FormLoadingMessage(form) # ""
                 THEN FormLoadingMessage(form)
                 ELSE "Processing request...")

\* part's submit handler, registered on every form.
partSubmit(x, form) ==
  IF includes(FormAction(form), ClearDataset) THEN x
  ELSE showLoading(x, IF FormLoadingMessage(form) # ""
                      THEN FormLoadingMessage(form)
                      ELSE "Processing request...")

\* ------------------------------------------------------------ dispatch

Fresh(x) ==
  [x EXCEPT !.error = FALSE, !.created = FALSE, !.threw = FALSE,
            !.prevented = FALSE, !.overlay = FALSE]

\* What one handler did: the selection it read, whether it showed an error,
\* threw, cancelled the event or added an overlay, and the selection it left.
Logged(script, before, after) ==
  [after EXCEPT !.log = Append(@,
     [script |-> script, saw |-> before.files, error |-> after.error,
      created |-> after.created, threw |-> after.threw,
      prevented |-> after.prevented,
      overlay |-> after.overlay, left |-> after.files])]

\* The listeners of an event run in the order they were added, each to its
\* end: an exception in one is reported and the next one still runs.
RECURSIVE DispatchChange(_, _)
DispatchChange(order, x) ==
  IF order = << >> THEN x
  ELSE LET script == Head(order)
           after  == IF script = "main" THEN mainChange(Fresh(x))
                     ELSE partChange(Fresh(x))
       IN DispatchChange(Tail(order), Logged(script, x, after))

\* Whether the script registered a submit handler on the form.
Listens(script, form) ==
  script = "part" \/ form \in {"forecast-form", "upload-form"}

RECURSIVE DispatchSubmit(_, _, _, _, _)
DispatchSubmit(order, x, form, product, daysValue) ==
  IF order = << >> THEN x
  ELSE LET script == Head(order)
           after  == IF script = "part" THEN partSubmit(Fresh(x), form)
                     ELSE IF form = "forecast-form"
                     THEN mainForecastSubmit(Fresh(x), product, daysValue)
                     ELSE mainUploadSubmit(Fresh(x))
       IN DispatchSubmit(Tail(order),
                         IF Listens(script, form) THEN Logged(script, x, after)
                         ELSE x,
                         form, product, daysValue)

\* The document after the handlers have run.
Settle(x) ==
  /\ files' = x.files
  /\ fileInfo' = x.fileInfo
  /\ errorAlerts' = x.errorAlerts
  /\ alerts' = x.alerts
  /\ overlays' = x.overlays
  /\ lastFailure' = x.lastFailure

\* ------------------------------------------------------------ events

\* The last event dispatched is a submit event that no handler cancelled: the
\* form is being sent.
Submitted ==
  /\ ev.type = "submit"
  /\ \A i \in DOMAIN ev.log : ~ev.log[i].prevented

\* The user changes the selection of the file input (picks a file, or empties
\* the selection): a change event on dataset.
Change(picked) ==
  /\ Has("dataset")
  /\ picked # files
  /\ Len(alerts) < MaxAlerts
  /\ LET x == DispatchChange(cfg.order, [Running EXCEPT !.files = picked])
     IN /\ Settle(x)
        /\ ev' = [NoEvent EXCEPT !.type = "change", !.target = "dataset",
                                 !.picked = picked, !.log = x.log]
  /\ UNCHANGED cfg

\* The user submits a form: a submit event on it.
Submit(form, product, daysValue) ==
  /\ Len(overlays) < MaxOverlays
  /\ LET x == DispatchSubmit(cfg.order, Running, form, product, daysValue)
     IN /\ Settle(x)
        /\ ev' = [NoEvent EXCEPT !.type = "submit", !.target = form,
                                 !.product = product, !.days = daysValue,
                                 !.log = x.log]
  /\ UNCHANGED cfg

SubmitForecast ==
  \E product \in ProductValues, daysValue \in DaysValues :
    Submit("forecast-form", product, daysValue)

SubmitOther ==
  \E form \in FormIds \ {"forecast-form"} : Submit(form, "", << >>)

\* The close button of main's error panel (data-bs-dismiss="alert"): the
\* panel is removed.  No listener of the scripts runs.
DismissErrorAlert ==
  /\ errorAlerts # << >>
  /\ errorAlerts' = Tail(errorAlerts)
  /\ UNCHANGED <<cfg, files, fileInfo, alerts, overlays, lastFailure, ev>>

\* The close button of one of part's alerts (data-bs-dismiss="alert"): that
\* alert is removed, whichever it is.
DismissAlert ==
  \E i \in DOMAIN alerts :
    /\ alerts' = SubSeq(alerts, 1, i - 1) \o SubSeq(alerts, i + 1, Len(alerts))
    /\ UNCHANGED <<cfg, files, fileInfo, errorAlerts, overlays, lastFailure, ev>>

\* The timer part's showError set closes the alert it was set for, ten
\* seconds after it was shown: of the alerts still in the page the oldest
\* goes first (the timer of an alert closed by hand has no effect).
AutoDismiss ==
  /\ alerts # << >>
  /\ alerts' = SubSeq(alerts, 1, Len(alerts) - 1)
  /\ UNCHANGED <<cfg, files, fileInfo, errorAlerts, overlays, lastFailure, ev>>

\* The response to the form sent replaces the page: DOMContentLoaded again.
PageLoad ==
  /\ Submitted
  /\ files' = << >>
  /\ fileInfo' = IF Has("file-info") THEN EmptyFileInfo ELSE NoFileInfo
  /\ errorAlerts' = << >>
  /\ alerts' = << >>
  /\ overlays' = << >>
  /\ lastFailure' = ""
  /\ ev' = NoEvent
  /\ UNCHANGED cfg

Next ==
  \/ \E picked \in FileLists : Change(picked)
  \/ SubmitForecast
  \/ SubmitOther
  \/ DismissErrorAlert
  \/ DismissAlert
  \/ AutoDismiss
  \/ PageLoad

Spec == Init /\ [][Next]_vars

\* ------------------------------------------------------------ formatting
\* The change handlers applied to files of many sizes: what the status panel
\* shows is what formatFileSize returned.

Digits == {0, 1, 512, k - 1}

\* The byte counts below 1024^4 whose base-1024 digits are in Digits, and
\* 1 TiB, 2 TiB and 1024^5 - 1.
ByteCounts ==
  {b \in UNION {[1..n -> Digits] : n \in 0..Len(sizes)} :
     b = << >> \/ b[Len(b)] # 0}
  \cup {<<0, 0, 0, 0, 1>>, <<0, 0, 0, 0, 2>>,
        <<k - 1, k - 1, k - 1, k - 1, k - 1>>}

InitFmt ==
  /\ cfg \in [order : {<<"main">>, <<"part">>}, missing : {{}}]
  /\ files = << >>
  /\ fileInfo = EmptyFileInfo
  /\ errorAlerts = << >>
  /\ alerts = << >>
  /\ overlays = << >>
  /\ lastFailure = ""
  /\ ev = NoEvent

NextFmt ==
  \/ \E bytes \in ByteCounts :
       Change(<<[name |-> <<"a", ".", "c", "s", "v">>, size |-> bytes]>>)
  \/ AutoDismiss

SpecFmt == InitFmt /\ [][NextFmt]_vars

\* ------------------------------------------------------------ properties

\* What the handlers of the script did on the last event.
Entries(script) == {ev.log[i] : i \in {j \in DOMAIN ev.log : ev.log[j].script = script}}

AllEntries == {ev.log[i] : i \in DOMAIN ev.log}

\* The name ends in .csv, whatever the case of its letters.
EndsInDotCsv(name) ==
  /\ Len(name) >= 4
  /\ name[Len(name) - 3] = "."
  /\ name[Len(name) - 2] \in {"c", "C"}
  /\ name[Len(name) - 1] \in {"s", "S"}
  /\ name[Len(name)] \in {"v", "V"}

\* The text is a decimal integer in 1..90: digits only, and the value.
RECURSIVE DecimalValue(_, _)
DecimalValue(s, acc) ==
  IF s = << >> THEN acc
  ELSE DecimalValue(Tail(s), acc * 10 + DigitValue(s[1]))

IsIntegerInRange(s) ==
  /\ s # << >>
  /\ \A i \in DOMAIN s : DigitValue(s[i]) < 10
  /\ DecimalValue(s, 0) \in 1..90

\* C1: on a change event, a handler that reads a file whose name does not end
\* in .csv (any size, 0 bytes included) leaves the selection cleared and has
\* shown an error panel when it returns.
C1_NonCsvRejected ==
  ev.type = "change" =>
    \A e \in AllEntries :
      (e.saw # << >> /\ ~EndsInDotCsv(e.saw[1].name)) =>
        (e.left = << >> /\ e.error)

\* C2: on a change event, a handler that reads a file of more than 16,777,216
\* bytes, whatever its extension, leaves the selection cleared and has shown
\* an error panel when it returns.
C2_OversizeRejected ==
  ev.type = "change" =>
    \A e \in AllEntries :
      (e.saw # << >> /\ Greater(e.saw[1].size, Limbs(16777216))) =>
        (e.left = << >> /\ e.error)

\* C3: on a submit event on forecast-form, main's handler cancels the
\* submission and shows an error panel exactly when the product is empty or
\* the days value is not an integer in 1..90; otherwise it does not cancel.
C3_ForecastGuard ==
  (ev.type = "submit" /\ ev.target = "forecast-form") =>
    \A e \in Entries("main") :
      IF ev.product = "" \/ ~IsIntegerInRange(ev.days)
      THEN e.prevented /\ e.error
      ELSE ~e.prevented

\* C4: on a submit event on any form, part's handler adds a loading overlay
\* to the body and does not cancel the submission when the form's action does
\* not contain clear_dataset, and adds no overlay when it does.
C4_LoadingOverlay ==
  (ev.type = "submit" /\ \E i \in DOMAIN cfg.order : cfg.order[i] = "part") =>
    /\ Entries("part") # {}
    /\ \A e \in Entries("part") :
         IF includes(FormAction(ev.target), ClearDataset)
         THEN ~e.overlay
         ELSE e.overlay /\ ~e.prevented /\ overlays # << >>

\* C4's case: the upload form was submitted with a file selected, and part's
\* handler has put an overlay up without cancelling the submission.
C4_Witness ==
  /\ ev.type = "submit" /\ ev.target = "upload-form"
  /\ files # << >>
  /\ \E e \in Entries("part") : e.overlay /\ ~e.prevented
  /\ overlays # << >>

\* C5: formatFileSize returns "0 Bytes" for 0, "1 KB" for 1024 and "1 MB" for
\* 1,048,576, and for every byte count the count divided by 1024^i rounded to
\* two decimals at most, followed by one of the units Bytes, KB, MB and GB.
C5_FormatFileSize ==
  \A e \in AllEntries :
    (e.saw # << >> /\ e.left # << >> /\ fileInfo.present) =>
      LET bytes == e.saw[1].size
      IN /\ bytes = Limbs(0) => fileInfo.size = "0 Bytes"
         /\ bytes = Limbs(1024) => fileInfo.size = "1 KB"
         /\ bytes = Limbs(1048576) => fileInfo.size = "1 MB"
         /\ bytes # Limbs(0) =>
              \E unit \in {"Bytes", "KB", "MB", "GB"} :
                fileInfo.size =
                  NumberText(Hundredths(bytes, Len(bytes) - 1)) \o " " \o unit

\* C6: on a change event, a handler that reads a file whose name ends in .csv
\* and whose size is at most 16,777,216 bytes leaves the selection as it is
\* and shows no error; the status panel, where there is one, shows the file.
C6_ValidFileKept ==
  ev.type = "change" =>
    \A e \in AllEntries :
      (e.saw # << >> /\ EndsInDotCsv(e.saw[1].name)
         /\ ~Greater(e.saw[1].size, Limbs(16777216))) =>
        /\ e.left = e.saw
        /\ ~e.error /\ ~e.created /\ ~e.threw
        /\ files = e.saw
        /\ (e.script = "main" => fileInfo.present)
        /\ (fileInfo.present =>
              /\ fileInfo.name = e.saw[1].name
              /\ fileInfo.size = formatFileSize(e.saw[1].size))

\* C6's case: a .CSV file of exactly 16,777,216 bytes was picked and read by
\* a handler, and is still the selection.
C6_Witness ==
  /\ ev.type = "change"
  /\ ev.picked = <<[name |-> <<"A", ".", "C", "S", "V">>,
                    size |-> Limbs(16777216)]>>
  /\ files = ev.picked
  /\ \E e \in Entries("part") : e.saw = ev.picked
  /\ fileInfo.present /\ fileInfo.size = "16 MB"

\* C7: no handler of a change or submit event lets an exception out, whatever
\* elements the document has.
C7_NoException == \A e \in AllEntries : ~e.threw

\* C8: on a submit event on forecast-form or upload-form, when a handler has
\* cancelled the submission no handler of that event has added a loading
\* overlay.
C8_OverlayOnlyIfSent ==
  (ev.type = "submit" /\ ev.target \in {"forecast-form", "upload-form"}
     /\ \E e \in AllEntries : e.prevented) =>
    \A e \in AllEntries : ~e.overlay

\* C9: the status panel shows a file's name and size only when that file is
\* the selection of the input.
C9_PanelShowsSelection ==
  (fileInfo.present /\ fileInfo.name \notin {<< >>, NoFileSelected}) =>
    /\ files # << >>
    /\ files[1].name = fileInfo.name
    /\ formatFileSize(files[1].size) = fileInfo.size

\* C10: with main's showError the page holds at most one error-alert element,
\* and it shows the message of the most recent validation failure.
C10_OneErrorAlert ==
  /\ Len(errorAlerts) <= 1
  /\ errorAlerts # << >> => errorAlerts[1] = lastFailure

\* C10's case: a failure was reported in an error-alert element that was in
\* the page already, showing another failure's message until then.
C10_Witness ==
  /\ ev.type = "submit" /\ ev.target = "upload-form"
  /\ \E e \in Entries("main") : e.error /\ ~e.created /\ e.prevented
  /\ errorAlerts = <<"Please select a file to upload.">>

=============================================================================
